---- MODULE Spec2Model ----
(***************************************************************************)
(* Model of pdf_to_speech.py: the extractor's normalisation passes, the    *)
(* fixed-size chunker, the two synthesizer backends and the driver         *)
(* (main / text_to_mp3).  Texts are sequences of one-character strings,    *)
(* audio is a sequence of byte values.                                     *)
(***************************************************************************)
EXTENDS Integers, Sequences, FiniteSets, TLC

VARIABLES pc, entry, raw, full_text, max_size, chunks, idx, provider,
          rate_is_one, audio_bytes, out_file, old_file, tmp_files, tmp_path,
          synth_calls, fragments, notes, failed_at, exit_code, error,
          once, twice

vars == <<pc, entry, raw, full_text, max_size, chunks, idx, provider,
          rate_is_one, audio_bytes, out_file, old_file, tmp_files, tmp_path,
          synth_calls, fragments, notes, failed_at, exit_code, error,
          once, twice>>

(* ---------------- bounds of the exploration ---------------------------- *)
MaxLen == 5          \* longest text given to the chunker on its own
MaxM == 3            \* largest chunk size given to the chunker on its own
MaxRaw == 6          \* longest raw text given to the normalisation on its own
MaxChunks == 3       \* most chunks a driver run is given

(* ---------------- program constants ------------------------------------ *)
MAX_CHARS == 4900

HY == "-"
NL == "\n"
SP == " "
WordChars == {"a"}                 \* characters matched by \w
WS == {SP, NL}                     \* characters matched by \s / stripped by strip()
Alphabet == WordChars \cup {HY} \cup WS

\* what is at a path: nothing, or a file holding bytes
NoFile == [exists |-> FALSE, bytes |-> <<>>]
File(b) == [exists |-> TRUE, bytes |-> b]

(* ---------------- extract_text: the regex passes ----------------------- *)
From(s, i) == SubSeq(s, i, Len(s))

\* a match of  -\n(\w)  starts at i
HyphenAt(s, i) ==
    /\ i + 2 <= Len(s)
    /\ s[i] = HY /\ s[i+1] = NL /\ s[i+2] \in WordChars

\* re.sub(r"-\n(\w)", r"\1", s): leftmost match first, then on after it
RECURSIVE SubHyphen(_)
SubHyphen(s) ==
    IF \E i \in 1..Len(s) : HyphenAt(s, i)
    THEN LET i == CHOOSE i \in 1..Len(s) :
                     HyphenAt(s, i) /\ \A j \in 1..(i-1) : ~HyphenAt(s, j)
         IN SubSeq(s, 1, i-1) \o <<s[i+2]>> \o SubHyphen(From(s, i+3))
    ELSE s

\* a match of  \s+\n  starting at i can end at the newline at k
TrailEnd(s, i, k) ==
    /\ i < k /\ k <= Len(s) /\ s[k] = NL
    /\ \A j \in i..k : s[j] \in WS
TrailAt(s, i) == s[i] \in WS /\ \E k \in (i+1)..Len(s) : TrailEnd(s, i, k)

\* re.sub(r"\s+\n", "\n", s): \s+ is greedy, so the match ends at the last
\* newline of the whitespace run
RECURSIVE SubTrailing(_)
SubTrailing(s) ==
    IF \E i \in 1..Len(s) : TrailAt(s, i)
    THEN LET i == CHOOSE i \in 1..Len(s) :
                     TrailAt(s, i) /\ \A j \in 1..(i-1) : ~TrailAt(s, j)
             k == CHOOSE k \in (i+1)..Len(s) :
                     TrailEnd(s, i, k)
                     /\ \A k2 \in (k+1)..Len(s) : ~TrailEnd(s, i, k2)
         IN SubSeq(s, 1, i-1) \o <<NL>> \o SubTrailing(From(s, k+1))
    ELSE s

\* a match of  \n{2,}  starts at i
BlankAt(s, i) == i + 1 <= Len(s) /\ s[i] = NL /\ s[i+1] = NL

\* re.sub(r"\n{2,}", "\n\n", s): the match takes the whole run of newlines
RECURSIVE SubBlank(_)
SubBlank(s) ==
    IF \E i \in 1..Len(s) : BlankAt(s, i)
    THEN LET i == CHOOSE i \in 1..Len(s) :
                     BlankAt(s, i) /\ \A j \in 1..(i-1) : ~BlankAt(s, j)
             k == CHOOSE k \in (i+1)..Len(s) :
                     /\ \A j \in i..k : s[j] = NL
                     /\ (k = Len(s) \/ s[k+1] # NL)
         IN SubSeq(s, 1, i-1) \o <<NL, NL>> \o SubBlank(From(s, k+1))
    ELSE s

\* str.strip()
Strip(s) ==
    LET a == CHOOSE a \in 1..(Len(s)+1) :
                 /\ \A j \in 1..(a-1) : s[j] \in WS
                 /\ (a = Len(s)+1 \/ s[a] \notin WS)
        b == CHOOSE b \in 0..Len(s) :
                 /\ \A j \in (b+1)..Len(s) : s[j] \in WS
                 /\ (b = 0 \/ s[b] \notin WS)
    IN SubSeq(s, a, b)

\* the value extract_text returns for the raw text pdfminer produced
Normalize(t) == Strip(SubBlank(SubTrailing(SubHyphen(t))))

(* ---------------- text_to_mp3: the chunker ----------------------------- *)
\* range(0, stop, step) as the sequence of its values
PyRange(stop, step) ==
    [k \in 1..((stop + step - 1) \div step) |-> (k - 1) * step]

\* s[i:j] for 0 <= i <= j, clamped to the text as Python does
PySlice(s, i, j) ==
    SubSeq(s, i + 1, IF j < Len(s) THEN j ELSE Len(s))

\* slices that lose the last, shorter one: range(0, len - size + 1, size)
ChunkDropTail(text, size) ==
    [k \in 1..(Len(text) \div size) |->
        PySlice(text, (k - 1) * size, (k - 1) * size + size)]

\* slices one character too long: text[i:i+size+1]
ChunkOverlap(text, size) ==
    LET starts == PyRange(Len(text), size)
    IN [k \in 1..Len(starts) |-> PySlice(text, starts[k], starts[k] + size + 1)]

\* [text[i:i+size] for i in range(0, len(text), size)]
Chunk(text, size) ==
    LET starts == PyRange(Len(text), size)
    IN [k \in 1..Len(starts) |-> PySlice(text, starts[k], starts[k] + size)]

RECURSIVE Flatten(_)
Flatten(ss) == IF ss = <<>> THEN <<>> ELSE Head(ss) \o Flatten(From(ss, 2))

RECURSIVE SumLen(_)
SumLen(ss) == IF ss = <<>> THEN 0 ELSE Len(Head(ss)) + SumLen(From(ss, 2))


(* ---------------- texts the explorations draw from --------------------- *)
RECURSIVE SeqsUpTo(_, _)
SeqsUpTo(S, n) ==
    IF n = 0 THEN {<<>>}
    ELSE LET shorter == SeqsUpTo(S, n - 1)
         IN shorter \cup {Append(t, c) : t \in {u \in shorter : Len(u) = n - 1}, c \in S}

Rep(c, n) == [i \in 1..n |-> c]

ChunkTexts == SeqsUpTo({"a", "b"}, MaxLen)
RawTexts == SeqsUpTo(Alphabet, MaxRaw)

\* values every specification gives the variables it does not use
Rest ==
    /\ entry = "none" /\ idx = 0 /\ provider = "none" /\ rate_is_one = TRUE
    /\ audio_bytes = <<>> /\ out_file = NoFile /\ old_file = NoFile
    /\ tmp_files = {} /\ tmp_path = 0 /\ synth_calls = <<>>
    /\ fragments = <<>> /\ notes = <<>> /\ failed_at = 0 /\ exit_code = -1
    /\ error = ""

runVars == <<entry, idx, provider, rate_is_one, audio_bytes, out_file, old_file,
             tmp_files, tmp_path, synth_calls, fragments, notes, failed_at,
             exit_code, error>>

(* ---------------- the chunker on its own ------------------------------- *)
InitChunk ==
    /\ pc = "chunk"
    /\ full_text \in ChunkTexts
    /\ max_size \in 1..MaxM
    /\ chunks = <<>>
    /\ raw = <<>> /\ once = <<>> /\ twice = <<>>
    /\ Rest

ApplyChunk ==
    /\ pc = "chunk"
    /\ chunks' = Chunk(full_text, max_size)
    /\ pc' = "chunked"
    /\ UNCHANGED <<raw, full_text, max_size, once, twice, runVars>>

NextChunk == ApplyChunk

SpecChunk == InitChunk /\ [][NextChunk]_vars

(* ---------------- the normalisation on its own ------------------------- *)
InitNorm ==
    /\ pc = "raw"
    /\ raw \in RawTexts
    /\ once = <<>> /\ twice = <<>>
    /\ full_text = <<>> /\ max_size = MAX_CHARS /\ chunks = <<>>
    /\ Rest

NormalizeOnce ==
    /\ pc = "raw"
    /\ once' = Normalize(raw)
    /\ pc' = "once"
    /\ UNCHANGED <<raw, twice, full_text, max_size, chunks, runVars>>

NormalizeTwice ==
    /\ pc = "once"
    /\ twice' = Normalize(once)
    /\ pc' = "twice"
    /\ UNCHANGED <<raw, once, full_text, max_size, chunks, runVars>>

NextNorm == NormalizeOnce \/ NormalizeTwice

SpecNorm == InitNorm /\ [][NextNorm]_vars


(* ---------------- the driver: main and text_to_mp3 --------------------- *)
Choices == {"google", "gtts"}          \* argparse choices of --provider
Providers == Choices \cup {"azure"}    \* what a caller of text_to_mp3 may pass
Fragments == {<<1>>, <<2, 3>>}         \* audio a backend may return for a chunk
OldAudio == File(<<7>>)                      \* a file already at the output path

\* lengths of the texts a run is given: around the multiples of MAX_CHARS
RunLens ==
    {1} \cup {k * MAX_CHARS + d : k \in 1..(MaxChunks - 1), d \in {0, 1}}

\* raw texts the PDF parser may return to main
MainRaws == {<<>>, <<SP, NL>>, <<NL, NL>>} \cup {Rep("a", n) : n \in RunLens}

\* texts a caller may pass to text_to_mp3
CallTexts == {<<>>} \cup {Rep("a", n) : n \in RunLens}

Init ==
    /\ pc = "idle"
    /\ entry = "none"
    /\ raw = <<>> /\ full_text = <<>> /\ max_size = MAX_CHARS /\ chunks = <<>>
    /\ idx = 0 /\ provider = "none" /\ rate_is_one = TRUE
    /\ audio_bytes = <<>>
    /\ out_file \in {NoFile, OldAudio}
    /\ old_file = out_file
    /\ tmp_files = {} /\ tmp_path = 0
    /\ synth_calls = <<>> /\ fragments = <<>> /\ notes = <<>>
    /\ failed_at = 0 /\ exit_code = -1 /\ error = ""
    /\ once = <<>> /\ twice = <<>>

pureVars == <<max_size, once, twice>>
histVars == <<synth_calls, fragments, notes, failed_at>>
fileVars == <<out_file, old_file, tmp_files, tmp_path>>
loopVars == <<chunks, idx, audio_bytes>>
argVars == <<entry, raw, full_text, provider, rate_is_one>>

\* the process ends with a message or a traceback: non-zero exit status
Die(msg) ==
    /\ pc' = "failed"
    /\ exit_code' = 1
    /\ error' = msg

\* parse_args(): the provider is one of the choices
ParseArgs ==
    /\ pc = "idle"
    /\ entry' = "main"
    /\ provider' \in Choices
    /\ rate_is_one' \in BOOLEAN
    /\ pc' = "parsed"
    /\ UNCHANGED <<raw, full_text, loopVars, fileVars, histVars, exit_code, error, pureVars>>

\* if not args.pdf.exists(): sys.exit(...)
PdfNotFound ==
    /\ pc = "parsed"
    /\ Die("PDF not found")
    /\ UNCHANGED <<argVars, loopVars, fileVars, histVars, pureVars>>

\* text = extract_text(args.pdf)
ExtractText ==
    /\ pc = "parsed"
    /\ \E r \in MainRaws :
          /\ raw' = r
          /\ full_text' = Normalize(r)
    /\ pc' = "extracted"
    /\ UNCHANGED <<entry, provider, rate_is_one, loopVars, fileVars, histVars,
                   exit_code, error, pureVars>>

\* the PDF parser raises inside extract_text
ExtractRaises ==
    /\ pc = "parsed"
    /\ Die("extract_text raised")
    /\ UNCHANGED <<argVars, loopVars, fileVars, histVars, pureVars>>

\* main without the emptiness test: text_to_mp3 is called with any text
CheckTextNoTest ==
    /\ pc = "extracted"
    /\ pc' = "text_to_mp3"
    /\ UNCHANGED <<argVars, loopVars, fileVars, histVars, exit_code, error, pureVars>>

\* if not text: sys.exit(...); otherwise text_to_mp3(text, ...)
CheckText ==
    /\ pc = "extracted"
    /\ IF full_text = <<>>
       THEN Die("No extractable text found in the PDF.")
       ELSE pc' = "text_to_mp3" /\ UNCHANGED <<exit_code, error>>
    /\ UNCHANGED <<argVars, loopVars, fileVars, histVars, pureVars>>

\* text_to_mp3 called as a function, with any text and any provider name
CallTextToMp3 ==
    /\ pc = "idle"
    /\ entry' = "call"
    /\ full_text' \in CallTexts
    /\ provider' \in Providers
    /\ rate_is_one' \in BOOLEAN
    /\ pc' = "text_to_mp3"
    /\ UNCHANGED <<raw, loopVars, fileVars, histVars, exit_code, error, pureVars>>

\* chunks = [...]; audio_bytes = bytearray(); the loop starts at idx 1
SplitText ==
    /\ pc = "text_to_mp3"
    /\ chunks' = Chunk(full_text, MAX_CHARS)
    /\ audio_bytes' = <<>>
    /\ idx' = 1
    /\ pc' = "loop"
    /\ UNCHANGED <<argVars, fileVars, histVars, exit_code, error, pureVars>>

\* audio_bytes.extend(audio_chunk), the wrong way round
ExtendFront(bytes, audio_chunk) == audio_chunk \o bytes

\* audio_bytes.extend(audio_chunk)
Extend(bytes, audio_chunk) == bytes \o audio_chunk

\* the progress line numbered from 0
ProgressFromZero(i, n) == <<i - 1, n>>

\* print(f"   Chunk {idx}/{len(chunks)} synthesized")
Progress(i, n) == <<i, n>>

\* the rest of the loop body once a backend returned audio_chunk
Synthesized(audio_chunk) ==
    /\ audio_bytes' = Extend(audio_bytes, audio_chunk)
    /\ fragments' = Append(fragments, audio_chunk)
    /\ notes' = Append(notes, Progress(idx, Len(chunks)))
    /\ idx' = idx + 1
    /\ pc' = "loop"

\* a backend raises for chunk idx: the exception leaves text_to_mp3 and main
Raised(what) ==
    /\ failed_at' = idx
    /\ Die(what)

\* synthesize_google raises and the loop goes on to the next chunk
GoogleRaisesSkipped ==
    /\ pc = "loop" /\ idx <= Len(chunks) /\ provider = "google"
    /\ synth_calls' = Append(synth_calls, idx)
    /\ failed_at' = idx
    /\ idx' = idx + 1
    /\ UNCHANGED <<pc, argVars, chunks, audio_bytes, fileVars, fragments, notes,
                   exit_code, error, pureVars>>

\* audio_chunk = synthesize_google(chunk, voice, rate)
GoogleReturns ==
    /\ pc = "loop" /\ idx <= Len(chunks) /\ provider = "google"
    /\ synth_calls' = Append(synth_calls, idx)
    /\ \E f \in Fragments : Synthesized(f)
    /\ UNCHANGED <<argVars, chunks, fileVars, failed_at, exit_code, error, pureVars>>

\* synthesize_google raises (credentials, network, quota, voice)
GoogleRaises ==
    /\ pc = "loop" /\ idx <= Len(chunks) /\ provider = "google"
    /\ synth_calls' = Append(synth_calls, idx)
    /\ Raised("synthesize_google raised")
    /\ UNCHANGED <<argVars, loopVars, fileVars, fragments, notes, pureVars>>

\* else: raise ValueError("Unsupported provider")
UnsupportedProvider ==
    /\ pc = "loop" /\ idx <= Len(chunks) /\ provider \notin Choices
    /\ Die("Unsupported provider")
    /\ UNCHANGED <<argVars, loopVars, fileVars, histVars, pureVars>>


(* ---------------- synthesize_gtts, statement by statement -------------- *)
\* synthesize_gtts is entered and gTTS(text=..., lang=...) is constructed
GttsCall ==
    /\ pc = "loop" /\ idx <= Len(chunks) /\ provider = "gtts"
    /\ synth_calls' = Append(synth_calls, idx)
    /\ pc' = "gtts_tmp"
    /\ UNCHANGED <<argVars, loopVars, fileVars, fragments, notes, failed_at,
                   exit_code, error, pureVars>>

\* the gTTS constructor rejects the text or the language
GttsCallRaises ==
    /\ pc = "loop" /\ idx <= Len(chunks) /\ provider = "gtts"
    /\ synth_calls' = Append(synth_calls, idx)
    /\ Raised("gTTS raised")
    /\ UNCHANGED <<argVars, loopVars, fileVars, fragments, notes, pureVars>>

\* with NamedTemporaryFile(delete=False) as tmp: a new file appears
GttsTmpCreate ==
    /\ pc = "gtts_tmp"
    /\ tmp_path' = tmp_path + 1
    /\ tmp_files' = tmp_files \cup {tmp_path + 1}
    /\ pc' = "gtts_write"
    /\ UNCHANGED <<argVars, loopVars, out_file, old_file, histVars, exit_code, error,
                   pureVars>>

\* spoken.write_to_fp(tmp); tmp_path = tmp.name; the file is closed, not removed
GttsWrite ==
    /\ pc = "gtts_write"
    /\ pc' = "gtts_decode"
    /\ UNCHANGED <<argVars, loopVars, fileVars, histVars, exit_code, error, pureVars>>

\* spoken.write_to_fp(tmp) raises: the with block closes the file and re-raises
GttsWriteRaises ==
    /\ pc = "gtts_write"
    /\ Raised("write_to_fp raised")
    /\ UNCHANGED <<argVars, loopVars, fileVars, synth_calls, fragments, notes,
                   pureVars>>

\* audio = AudioSegment.from_mp3(tmp_path)
GttsDecode ==
    /\ pc = "gtts_decode"
    /\ pc' = "gtts_unlink"
    /\ UNCHANGED <<argVars, loopVars, fileVars, histVars, exit_code, error, pureVars>>

\* AudioSegment.from_mp3(tmp_path) raises
GttsDecodeRaises ==
    /\ pc = "gtts_decode"
    /\ Raised("from_mp3 raised")
    /\ UNCHANGED <<argVars, loopVars, fileVars, synth_calls, fragments, notes,
                   pureVars>>

\* Path(tmp_path).unlink(missing_ok=True); then the test speaking_rate != 1.0
GttsUnlink ==
    /\ pc = "gtts_unlink"
    /\ tmp_files' = tmp_files \ {tmp_path}
    /\ pc' = IF rate_is_one THEN "gtts_export" ELSE "gtts_rate"
    /\ UNCHANGED <<argVars, loopVars, out_file, old_file, tmp_path, histVars,
                   exit_code, error, pureVars>>

\* audio = audio._spawn(...).set_frame_rate(...)
GttsResample ==
    /\ pc = "gtts_rate"
    /\ pc' = "gtts_export"
    /\ UNCHANGED <<argVars, loopVars, fileVars, histVars, exit_code, error, pureVars>>

\* the resampling raises
GttsResampleRaises ==
    /\ pc = "gtts_rate"
    /\ Raised("set_frame_rate raised")
    /\ UNCHANGED <<argVars, loopVars, fileVars, synth_calls, fragments, notes,
                   pureVars>>

\* audio.export(fp, format="mp3"); return fp.getvalue()
GttsExport ==
    /\ pc = "gtts_export"
    /\ \E f \in Fragments : Synthesized(f)
    /\ UNCHANGED <<argVars, chunks, fileVars, synth_calls, failed_at, exit_code, error,
                   pureVars>>

\* audio.export raises
GttsExportRaises ==
    /\ pc = "gtts_export"
    /\ Raised("export raised")
    /\ UNCHANGED <<argVars, loopVars, fileVars, synth_calls, fragments, notes,
                   pureVars>>

(* ---------------- after the loop --------------------------------------- *)
\* the for loop is exhausted
LoopEnds ==
    /\ pc = "loop" /\ idx > Len(chunks)
    /\ pc' = "write"
    /\ UNCHANGED <<argVars, loopVars, fileVars, histVars, exit_code, error, pureVars>>

\* out_path.write_bytes(audio_bytes); the run ends with status 0
WriteBytes ==
    /\ pc = "write"
    /\ out_file' = File(audio_bytes)
    /\ pc' = "done"
    /\ exit_code' = 0
    /\ UNCHANGED error
    /\ UNCHANGED <<argVars, loopVars, old_file, tmp_files, tmp_path, histVars,
                   pureVars>>

\* the output path cannot be opened for writing
WriteRaises ==
    /\ pc = "write"
    /\ Die("write_bytes raised")
    /\ UNCHANGED <<argVars, loopVars, fileVars, histVars, pureVars>>

Next ==
    \/ ParseArgs \/ PdfNotFound \/ ExtractText \/ ExtractRaises \/ CheckText
    \/ CallTextToMp3 \/ SplitText
    \/ GoogleReturns \/ GoogleRaises \/ UnsupportedProvider
    \/ GttsCall \/ GttsCallRaises \/ GttsTmpCreate \/ GttsWrite \/ GttsWriteRaises
    \/ GttsDecode \/ GttsDecodeRaises \/ GttsUnlink
    \/ GttsResample \/ GttsResampleRaises \/ GttsExport \/ GttsExportRaises
    \/ LoopEnds \/ WriteBytes \/ WriteRaises

Spec == Init /\ [][Next]_vars


(* ======================= properties ==================================== *)

\* C1: for every text and every positive chunk size, the chunks concatenated
\* in order give back the text exactly, and no chunk is longer than the size.
C1_RoundTrip ==
    pc = "chunked" =>
        /\ Flatten(chunks) = full_text
        /\ \A k \in 1..Len(chunks) : Len(chunks[k]) <= max_size

\* a text cut into several chunks, the last one shorter than the size
C1_Witness ==
    /\ pc = "chunked"
    /\ Len(chunks) >= 2
    /\ Len(chunks[Len(chunks)]) < max_size

\* C2 as stated: every text no longer than the chunk size, the empty text
\* included, gives exactly one chunk, equal to the text.
C2_OneChunkAlways ==
    (pc = "chunked" /\ Len(full_text) <= max_size) => chunks = <<full_text>>

\* C2 amended: a non-empty text no longer than the chunk size gives exactly
\* one chunk, equal to the text; the empty text gives no chunk at all.
C2_OneChunkNonEmpty ==
    (pc = "chunked" /\ Len(full_text) <= max_size) =>
        IF full_text = <<>> THEN chunks = <<>> ELSE chunks = <<full_text>>

\* a non-empty text shorter than the chunk size has been chunked
C2_Witness ==
    /\ pc = "chunked"
    /\ full_text # <<>>
    /\ Len(full_text) < max_size
    /\ Len(chunks) = 1

\* C3: when every chunk was synthesized, the file written is the fragments
\* the backend returned for chunks 1..n, concatenated in chunk order, and its
\* length is the sum of their lengths.
C3_OrderPreserved ==
    (pc = "done" /\ Len(fragments) = Len(chunks)) =>
        /\ synth_calls = [i \in 1..Len(chunks) |-> i]
        /\ out_file = File(Flatten(fragments))
        /\ Len(out_file.bytes) = SumLen(fragments)

\* a finished run over three chunks whose fragments differ
C3_Witness ==
    /\ pc = "done"
    /\ Len(chunks) = 3
    /\ Len(fragments) = 3
    /\ fragments[1] # fragments[2]
    /\ out_file = File(audio_bytes)

\* C4: once the synthesis of chunk k has failed the run is in Failed: the
\* backend was invoked for chunks 1..k once each and for no later chunk, and
\* the output path holds what it held before the run.
C4_FailStop ==
    failed_at # 0 =>
        /\ pc = "failed"
        /\ exit_code # 0
        /\ synth_calls = [i \in 1..failed_at |-> i]
        /\ out_file = old_file

\* the second of three chunks failed while a file was already at the path
C4_Witness ==
    /\ failed_at = 2
    /\ Len(chunks) = 3
    /\ old_file = OldAudio
    /\ pc = "failed"

\* main got a text back from extract_text
Extracted ==
    /\ entry = "main"
    /\ pc \notin {"idle", "parsed"}
    /\ error \notin {"PDF not found", "extract_text raised"}

\* C5: when extract_text returns the empty text, main goes from the test to
\* the failed state with a non-zero status and nowhere else: no backend is
\* invoked and the output path is not written.
C5_EmptyTextFails ==
    (Extracted /\ full_text = <<>>) =>
        /\ pc \in {"extracted", "failed"}
        /\ synth_calls = <<>>
        /\ out_file = old_file
        /\ pc = "failed" =>
              (exit_code # 0 /\ error = "No extractable text found in the PDF.")

\* a PDF with only whitespace ended the run
C5_Witness ==
    /\ Extracted
    /\ raw # <<>>
    /\ full_text = <<>>
    /\ pc = "failed"

\* C6 as stated: outside synthesize_gtts no temporary file it created exists,
\* whether it returned or raised, and at most one exists at any time.
C6_TempFileDeleted ==
    /\ Cardinality(tmp_files) <= 1
    /\ pc \in {"loop", "write", "done", "failed"} => tmp_files = {}

\* C7 as stated: normalizing the normalized text changes nothing.
C7_Idempotent ==
    pc = "twice" => twice = once

\* C8 as stated: two pieces of content with three or more blank lines
\* between them are normalized to the two pieces with exactly one blank line
\* between them.
C8_OneBlankLine ==
    pc = "once" =>
        \A i \in 2..Len(raw) : \A j \in i..(Len(raw) - 1) :
            ( /\ j - i + 1 >= 4
              /\ \A k \in i..j : raw[k] = NL
              /\ \A k \in 1..(i-1) : raw[k] \in WordChars
              /\ \A k \in (j+1)..Len(raw) : raw[k] \in WordChars )
            => once = SubSeq(raw, 1, i-1) \o <<NL, NL>> \o From(raw, j+1)

\* C9: the progress lines are "1 of n", "2 of n", ... without gaps; there
\* are as many as chunks synthesized so far; line i exists before chunk i+1
\* is started; a chunk whose synthesis failed has no line.
C9_Progress ==
    /\ notes = [i \in 1..Len(notes) |-> <<i, Len(chunks)>>]
    /\ Len(notes) = Len(fragments)
    /\ synth_calls = [i \in 1..Len(synth_calls) |-> i]
    /\ Len(synth_calls) \in {Len(notes), Len(notes) + 1}
    /\ failed_at # 0 => Len(notes) = failed_at - 1

\* two chunks were reported and the third failed
C9_Witness ==
    /\ Len(notes) = 2
    /\ failed_at = 3
    /\ notes[2] = <<2, 3>>

\* C10 as stated: a call of text_to_mp3 with an unsupported provider never
\* completes, invokes no backend and leaves the output path as it was.
C10_UnsupportedFails ==
    (entry = "call" /\ provider \notin Choices) =>
        /\ pc # "done"
        /\ synth_calls = <<>>
        /\ out_file = old_file

====
